---- MODULE Spec2Model ----
(***************************************************************************)
(* Model of src/dist/receipt.js: calculateLineItems, wrapText,             *)
(* generateReceipt (text renderer) and generateReceiptImage (image         *)
(* renderer, an async function whose await points are the steps).          *)
(*                                                                         *)
(* JavaScript values are records [k, n, d, s]:                             *)
(*   k = "num"    a finite number, the rational n/d in lowest terms, d > 0 *)
(*   k = "nan" | "inf" | "ninf"   NaN, +Infinity, -Infinity                *)
(*   k = "undef"  undefined (a missing property)                           *)
(*   k = "str"    a string, s its characters (a sequence of 1-char strings)*)
(*   k = "bigint" a BigInt of value n                                      *)
(*   k = "symbol" a Symbol                                                 *)
(* Finite arithmetic is exact (rationals): IEEE rounding is not modelled.  *)
(* Strings are sequences of one-character strings.                         *)
(***************************************************************************)
EXTENDS Integers, Sequences, FiniteSets, TLC

\* ------------------------------------------------------------- bounds
MaxItems == 2
MaxWords == 3
MaxWordLen == 4
MaxBudget == 4
MaxNameLines == 6

\* ------------------------------------------------------ JS number values
Abs(x) == IF x < 0 THEN -x ELSE x

RECURSIVE Gcd(_, _)
Gcd(a, b) == IF b = 0 THEN a ELSE Gcd(b, a % b)

Rat(n, d) ==
    LET g == Gcd(Abs(n), Abs(d))
        s == IF d < 0 THEN -1 ELSE 1
    IN [k |-> "num", n |-> (s * n) \div g, d |-> (s * d) \div g, s |-> <<>>]

Num(n) == Rat(n, 1)
NaN == [k |-> "nan", n |-> 0, d |-> 1, s |-> <<>>]
Infinity == [k |-> "inf", n |-> 0, d |-> 1, s |-> <<>>]
NegInfinity == [k |-> "ninf", n |-> 0, d |-> 1, s |-> <<>>]
Undefined == [k |-> "undef", n |-> 0, d |-> 1, s |-> <<>>]
Str(chars) == [k |-> "str", n |-> 0, d |-> 1, s |-> chars]
BigInt(n) == [k |-> "bigint", n |-> n, d |-> 1, s |-> <<>>]
Symbol == [k |-> "symbol", n |-> 0, d |-> 1, s |-> <<>>]

IsNumber(x) == x.k \in {"num", "nan", "inf", "ninf"}
IsFinite(x) == x.k = "num"

\* sign of a number value: -1, 0, 1 (NaN has none: callers test it first)
Sign(x) ==
    CASE x.k = "inf" -> 1
      [] x.k = "ninf" -> -1
      [] x.k = "num" -> (IF x.n > 0 THEN 1 ELSE IF x.n < 0 THEN -1 ELSE 0)
      [] OTHER -> 0

\* a * b on numbers
NumMul(a, b) ==
    IF a.k = "nan" \/ b.k = "nan" THEN NaN
    ELSE IF a.k = "num" /\ b.k = "num" THEN Rat(a.n * b.n, a.d * b.d)
    ELSE IF Sign(a) * Sign(b) = 0 THEN NaN
    ELSE IF Sign(a) * Sign(b) > 0 THEN Infinity ELSE NegInfinity

NumNeg(a) ==
    CASE a.k = "num" -> Rat(-a.n, a.d)
      [] a.k = "inf" -> NegInfinity
      [] a.k = "ninf" -> Infinity
      [] OTHER -> NaN

\* a + b on numbers
NumAdd(a, b) ==
    IF a.k = "nan" \/ b.k = "nan" THEN NaN
    ELSE IF a.k = "num" /\ b.k = "num" THEN Rat(a.n * b.d + b.n * a.d, a.d * b.d)
    ELSE IF a.k = "num" THEN b
    ELSE IF b.k = "num" THEN a
    ELSE IF a.k = b.k THEN a ELSE NaN

NumSub(a, b) == NumAdd(a, NumNeg(b))

\* a / b on numbers, b finite and not zero (the code divides by 100 only)
NumDiv(a, b) ==
    IF a.k = "nan" \/ b.k # "num" \/ b.n = 0 THEN NaN
    ELSE IF a.k = "num" THEN Rat(a.n * b.d, a.d * b.n)
    ELSE IF Sign(a) * Sign(b) > 0 THEN Infinity ELSE NegInfinity

\* a < b and a > b on numbers: false when either side is NaN
NumLt(a, b) ==
    IF a.k = "nan" \/ b.k = "nan" THEN FALSE
    ELSE IF a.k = "num" /\ b.k = "num" THEN a.n * b.d < b.n * a.d
    ELSE IF a.k = b.k THEN FALSE
    ELSE a.k = "ninf" \/ b.k = "inf"

NumGt(a, b) == NumLt(b, a)

\* ------------------------------------------------------------- strings
Digits == <<"0", "1", "2", "3", "4", "5", "6", "7", "8", "9">>
IsDigit(c) == \E i \in 1..10 : Digits[i] = c
DigitVal(c) == (CHOOSE i \in 1..10 : Digits[i] = c) - 1

RECURSIVE NatToChars(_)
NatToChars(n) ==
    IF n < 10 THEN <<Digits[n + 1]>>
    ELSE NatToChars(n \div 10) \o <<Digits[(n % 10) + 1]>>

\* the fraction digits of r/d (0 <= r < d), until the expansion ends or
\* `fuel` digits are written
RECURSIVE FracChars(_, _, _)
FracChars(r, d, fuel) ==
    IF r = 0 \/ fuel = 0 THEN <<>>
    ELSE <<Digits[((r * 10) \div d) + 1]>> \o FracChars((r * 10) % d, d, fuel - 1)

\* String(x) for a number
NumToString(x) ==
    CASE x.k = "nan" -> <<"N", "a", "N">>
      [] x.k = "inf" -> <<"I", "n", "f", "i", "n", "i", "t", "y">>
      [] x.k = "ninf" -> <<"-", "I", "n", "f", "i", "n", "i", "t", "y">>
      [] OTHER ->
           LET a == Abs(x.n)
               whole == NatToChars(a \div x.d)
               frac == FracChars(a % x.d, x.d, 17)
           IN (IF x.n < 0 THEN <<"-">> ELSE <<>>) \o whole
                \o (IF frac = <<>> THEN <<>> ELSE <<".">> \o frac)

\* x.toFixed(2) for a number: two fraction digits, ties away from zero
toFixed2(x) ==
    IF x.k # "num" THEN NumToString(x)
    ELSE LET a == Abs(x.n)
             c == (2 * a * 100 + x.d) \div (2 * x.d)
             cents == c % 100
         IN (IF x.n < 0 THEN <<"-">> ELSE <<>>) \o NatToChars(c \div 100)
              \o <<".", Digits[(cents \div 10) + 1], Digits[(cents % 10) + 1]>>

\* s.trim(): the only white space of the model's alphabet is the space
RECURSIVE TrimStart(_)
TrimStart(s) == IF s # <<>> /\ Head(s) = " " THEN TrimStart(Tail(s)) ELSE s

RECURSIVE TrimEnd(_)
TrimEnd(s) ==
    IF s # <<>> /\ s[Len(s)] = " " THEN TrimEnd(SubSeq(s, 1, Len(s) - 1)) ELSE s

Trim(s) == TrimEnd(TrimStart(s))

\* s.split(' ')
RECURSIVE Split(_)
Split(s) ==
    IF \A i \in 1..Len(s) : s[i] # " " THEN <<s>>
    ELSE LET i == CHOOSE j \in 1..Len(s) :
                      s[j] = " " /\ \A m \in 1..(j - 1) : s[m] # " "
         IN <<SubSeq(s, 1, i - 1)>> \o Split(SubSeq(s, i + 1, Len(s)))

\* ------------------------------------------------- string -> number
RECURSIVE DigitRun(_, _)
\* the number of digits of s from position i on
DigitRun(s, i) ==
    IF i <= Len(s) /\ IsDigit(s[i]) THEN 1 + DigitRun(s, i + 1) ELSE 0

RECURSIVE DigitsValue(_)
DigitsValue(ds) ==
    IF ds = <<>> THEN 0
    ELSE 10 * DigitsValue(SubSeq(ds, 1, Len(ds) - 1)) + DigitVal(ds[Len(ds)])

RECURSIVE Pow10(_)
Pow10(e) == IF e = 0 THEN 1 ELSE 10 * Pow10(e - 1)

\* The decimal literal at the head of t: [sign] digits [. digits] or
\* [sign] . digits.  (Exponents and the word Infinity are outside the
\* model's alphabet: digits, "-", "+", ".", " " and letters that start no
\* literal.)  len = 0: t starts with no literal.
Literal(t) ==
    LET sl == IF t # <<>> /\ t[1] \in {"-", "+"} THEN 1 ELSE 0
        a == DigitRun(t, sl + 1)
        dot == sl + a + 1 <= Len(t) /\ t[sl + a + 1] = "."
        b == IF dot THEN DigitRun(t, sl + a + 2) ELSE 0
        sgn == IF sl = 1 /\ t[1] = "-" THEN -1 ELSE 1
        whole == DigitsValue(SubSeq(t, sl + 1, sl + a))
        frac == DigitsValue(SubSeq(t, sl + a + 2, sl + a + 1 + b))
    IN IF a = 0 /\ b = 0 THEN [len |-> 0, val |-> NaN]
       ELSE [len |-> sl + a + (IF dot THEN 1 + b ELSE 0),
             val |-> Rat(sgn * (whole * Pow10(b) + frac), Pow10(b))]

\* parseFloat(x): String(x), leading white space skipped, then the longest
\* literal prefix.  parseFloat(Symbol) throws (ParseFloatThrows).
ParseFloatThrows(x) == x.k = "symbol"

parseFloat(x) ==
    CASE x.k \in {"num", "nan", "inf", "ninf"} -> x
      [] x.k = "bigint" -> Num(x.n)
      [] x.k = "str" -> Literal(TrimStart(x.s)).val
      [] OTHER -> NaN

\* ToNumber(x), as the operators * and - apply it to a non-BigInt operand:
\* a string must be a literal as a whole, the empty string is 0
ToNumber(x) ==
    CASE x.k \in {"num", "nan", "inf", "ninf"} -> x
      [] x.k = "str" ->
           LET t == Trim(x.s)
           IN IF t = <<>> THEN Num(0)
              ELSE IF Literal(t).len = Len(t) THEN Literal(t).val ELSE NaN
      [] OTHER -> NaN

\* a * b: a TypeError for a Symbol operand and for a BigInt mixed with
\* anything else
MulThrows(a, b) ==
    a.k = "symbol" \/ b.k = "symbol" \/ ((a.k = "bigint") # (b.k = "bigint"))

JsMul(a, b) ==
    IF a.k = "bigint" /\ b.k = "bigint" THEN BigInt(a.n * b.n)
    ELSE NumMul(ToNumber(a), ToNumber(b))

\* String(x) / x.toString() of a value that has one
ToStringJs(x) ==
    CASE x.k = "str" -> x.s
      [] x.k = "bigint" ->
           (IF x.n < 0 THEN <<"-">> ELSE <<>>) \o NatToChars(Abs(x.n))
      [] x.k = "undef" -> <<"u", "n", "d", "e", "f", "i", "n", "e", "d">>
      [] OTHER -> NumToString(x)

\* ------------------------------------------------- calculateLineItems
\* the test of line 29 on the two parsed numbers
Invalid(quantity, price) ==
    quantity.k = "nan" \/ price.k = "nan"
        \/ NumLt(quantity, Num(0)) \/ NumLt(price, Num(0))

\* the callback of items.map throws
LineItemThrows(item) ==
    \/ ParseFloatThrows(item.quantity)
    \/ ParseFloatThrows(item.price)
    \/ /\ ~Invalid(parseFloat(item.quantity), parseFloat(item.price))
       /\ MulThrows(item.quantity, item.price)

\* LineItem with the total added up instead of multiplied
LineItemAdds(item) ==
    IF Invalid(parseFloat(item.quantity), parseFloat(item.price))
    THEN [name |-> item.name, quantity |-> Num(0), price |-> Num(0),
          total |-> Num(0)]
    ELSE [name |-> item.name, quantity |-> item.quantity, price |-> item.price,
          total |-> NumAdd(ToNumber(item.quantity), ToNumber(item.price))]

\* the callback of items.map, lines 24-36
LineItem(item) ==
    IF Invalid(parseFloat(item.quantity), parseFloat(item.price))
    THEN [name |-> item.name, quantity |-> Num(0), price |-> Num(0),
          total |-> Num(0)]
    ELSE [name |-> item.name, quantity |-> item.quantity, price |-> item.price,
          total |-> JsMul(item.quantity, item.price)]

\* lineItems.reduce((sum, item) => sum + item.total, 0) over the first k
\* line items; a BigInt total makes number + bigint throw
RECURSIVE SumTotals(_, _)
SumTotals(lineItems, k) ==
    IF k = 0 THEN Num(0)
    ELSE NumAdd(SumTotals(lineItems, k - 1), lineItems[k].total)

calculateLineItems(items) ==
    IF \E i \in 1..Len(items) : LineItemThrows(items[i])
    THEN [threw |-> TRUE, lineItems |-> <<>>, subtotal |-> NaN]
    ELSE LET lineItems == [i \in 1..Len(items) |-> LineItem(items[i])]
         IN IF \E i \in 1..Len(items) : lineItems[i].total.k = "bigint"
            THEN [threw |-> TRUE, lineItems |-> <<>>, subtotal |-> NaN]
            ELSE [threw |-> FALSE, lineItems |-> lineItems,
                  subtotal |-> SumTotals(lineItems, Len(lineItems))]

\* ------------------------------------------------------------ wrapText
\* WrapStep flushing already when the line with the word is exactly
\* maxLength wide
WrapStepOffByOne(st, word, maxLength) ==
    IF Len(st.currentLine \o word) >= maxLength /\ Len(st.currentLine) > 0
    THEN [lines |-> Append(st.lines, Trim(st.currentLine)),
          currentLine |-> word \o <<" ">>]
    ELSE [lines |-> st.lines, currentLine |-> st.currentLine \o word \o <<" ">>]

\* the body of the loop of lines 46-53 on st = [lines, currentLine]
WrapStep(st, word, maxLength) ==
    IF Len(st.currentLine \o word) > maxLength /\ Len(st.currentLine) > 0
    THEN [lines |-> Append(st.lines, Trim(st.currentLine)),
          currentLine |-> word \o <<" ">>]
    ELSE [lines |-> st.lines, currentLine |-> st.currentLine \o word \o <<" ">>]

\* the state of the loop after the first k words
RECURSIVE WrapLoop(_, _, _)
WrapLoop(words, k, maxLength) ==
    IF k = 0 THEN [lines |-> <<>>, currentLine |-> <<>>]
    ELSE WrapStep(WrapLoop(words, k - 1, maxLength), words[k], maxLength)

wrapText(text, maxLength) ==
    LET st == WrapLoop(Split(text), Len(Split(text)), maxLength)
    IN Append(st.lines, Trim(st.currentLine))

\* ------------------------------------------------------ receipt input
\* receiptData = [items, discount, taxRate, vatRate, currency,
\*                companyAddress, logoPath, qrCode, outputType,
\*                saveToBrowserStorage].
\* An absent optional string (companyAddress, logoPath, qrCode.data) is the
\* empty sequence: undefined and "" are both falsy.  discount.present is
\* the truthiness of receiptData.discount; qrCode.size = 0 is a missing
\* size.  storeName is always painted and takes no part in any branch.

\* a line of output: what is written, without the padding to column widths
Row(kind, label, qty, text, value) ==
    [kind |-> kind, label |-> label, qty |-> qty, text |-> text, value |-> value]

RECURSIVE Concat(_)
\* the concatenation of a sequence of sequences
Concat(ss) == IF ss = <<>> THEN <<>> ELSE Head(ss) \o Concat(Tail(ss))

\* --------------------------------------------------- generateReceipt
\* lines 75-87
TextDiscountAmount(subtotal, discount) ==
    IF discount.present
    THEN IF discount.type = "percentage"
         THEN NumMul(subtotal, NumDiv(discount.value, Num(100)))
         ELSE discount.value
    ELSE Num(0)

TextTotals(subtotal, discount, taxRate, vatRate) ==
    LET discountAmount == TextDiscountAmount(subtotal, discount)
        subtotalAfterDiscount == NumSub(subtotal, discountAmount)
        tax == NumMul(subtotalAfterDiscount, taxRate)
        vat == NumMul(subtotalAfterDiscount, vatRate)
    IN [subtotal |-> subtotal, discountAmount |-> discountAmount,
        subtotalAfterDiscount |-> subtotalAfterDiscount, tax |-> tax,
        vat |-> vat, total |-> NumAdd(NumAdd(subtotalAfterDiscount, tax), vat)]

\* lines 99-103
TextNameLines(item, currency) ==
    LET qty == ToStringJs(item.quantity)
        itemTotal == currency \o toFixed2(item.total)
        maxNameLength == 32 - Len(qty) - Len(itemTotal) - 2
    IN wrapText(item.name, maxNameLength)

\* lines 99-108: the rows of one line item
TextItemRows(item, currency) ==
    LET qty == ToStringJs(item.quantity)
        itemTotal == currency \o toFixed2(item.total)
        nameLines == TextNameLines(item, currency)
    IN <<Row("item", <<>>, qty, nameLines[1], itemTotal)>>
         \o [i \in 1..(Len(nameLines) - 1) |->
                Row("cont", <<>>, <<>>, nameLines[i + 1], <<>>)]

\* TextSummaryRows with the Tax row before the VAT row
TextSummaryRowsTaxFirst(t, discount, taxRate, vatRate, currency) ==
    <<Row("blank", <<>>, <<>>, <<>>, <<>>), Row("rule", <<>>, <<>>, <<>>, <<>>),
      Row("summary", <<"Subtotal">>, <<>>, <<>>, currency \o toFixed2(t.subtotal))>>
    \o (IF NumGt(t.discountAmount, Num(0))
        THEN <<Row("summary",
                   IF discount.type = "percentage"
                   THEN <<"Discount (", NumToString(discount.value), "%)">>
                   ELSE <<"Discount">>,
                   <<>>, <<>>,
                   <<"-">> \o currency \o toFixed2(t.discountAmount))>>
        ELSE <<>>)
    \o (IF NumGt(t.tax, Num(0))
        THEN <<Row("summary", <<"Tax (", toFixed2(NumMul(taxRate, Num(100))), "%)">>,
                   <<>>, <<>>, currency \o toFixed2(t.tax))>>
        ELSE <<>>)
    \o (IF NumGt(t.vat, Num(0))
        THEN <<Row("summary", <<"VAT (", toFixed2(NumMul(vatRate, Num(100))), "%)">>,
                   <<>>, <<>>, currency \o toFixed2(t.vat))>>
        ELSE <<>>)
    \o <<Row("rule", <<>>, <<>>, <<>>, <<>>),
         Row("summary", <<"TOTAL">>, <<>>, <<>>, currency \o toFixed2(t.total))>>

\* lines 111-124
TextSummaryRows(t, discount, taxRate, vatRate, currency) ==
    <<Row("blank", <<>>, <<>>, <<>>, <<>>), Row("rule", <<>>, <<>>, <<>>, <<>>),
      Row("summary", <<"Subtotal">>, <<>>, <<>>, currency \o toFixed2(t.subtotal))>>
    \o (IF NumGt(t.discountAmount, Num(0))
        THEN <<Row("summary",
                   IF discount.type = "percentage"
                   THEN <<"Discount (", NumToString(discount.value), "%)">>
                   ELSE <<"Discount">>,
                   <<>>, <<>>,
                   <<"-">> \o currency \o toFixed2(t.discountAmount))>>
        ELSE <<>>)
    \o (IF NumGt(t.vat, Num(0))
        THEN <<Row("summary", <<"VAT (", toFixed2(NumMul(vatRate, Num(100))), "%)">>,
                   <<>>, <<>>, currency \o toFixed2(t.vat))>>
        ELSE <<>>)
    \o (IF NumGt(t.tax, Num(0))
        THEN <<Row("summary", <<"Tax (", toFixed2(NumMul(taxRate, Num(100))), "%)">>,
                   <<>>, <<>>, currency \o toFixed2(t.tax))>>
        ELSE <<>>)
    \o <<Row("rule", <<>>, <<>>, <<>>, <<>>),
         Row("summary", <<"TOTAL">>, <<>>, <<>>, currency \o toFixed2(t.total))>>

NoTotals ==
    [subtotal |-> NaN, discountAmount |-> NaN, subtotalAfterDiscount |-> NaN,
     tax |-> NaN, vat |-> NaN, total |-> NaN]

\* lines 71-130: [status, receipt, totals]; status "threw" when an
\* exception leaves the function
generateReceipt(rd) ==
    LET calc == calculateLineItems(rd.items)
        t == TextTotals(calc.subtotal, rd.discount, rd.taxRate, rd.vatRate)
    IN IF calc.threw
       THEN [status |-> "threw", receipt |-> <<>>, totals |-> NoTotals]
       ELSE [status |-> "returned",
             receipt |->
                 <<Row("rule", <<>>, <<>>, <<>>, <<>>),
                   Row("store", <<>>, <<>>, <<>>, <<>>)>>
                 \o (IF rd.companyAddress # <<>>
                     THEN <<Row("address", <<>>, <<>>, rd.companyAddress, <<>>)>>
                     ELSE <<>>)
                 \o <<Row("rule", <<>>, <<>>, <<>>, <<>>),
                      Row("blank", <<>>, <<>>, <<>>, <<>>),
                      Row("header", <<>>, <<>>, <<>>, <<>>),
                      Row("rule", <<>>, <<>>, <<>>, <<>>)>>
                 \o Concat([i \in 1..Len(calc.lineItems) |->
                               TextItemRows(calc.lineItems[i], rd.currency)])
                 \o TextSummaryRows(t, rd.discount, rd.taxRate, rd.vatRate, rd.currency)
                 \o <<Row("blank", <<>>, <<>>, <<>>, <<>>),
                      Row("rule", <<>>, <<>>, <<>>, <<>>),
                      Row("thanks", <<>>, <<>>, <<>>, <<>>),
                      Row("rule", <<>>, <<>>, <<>>, <<>>)>>,
             totals |-> t]

\* ------------------------------------------------ generateReceiptImage
canvasWidth == 450
padding == 20
contentWidth == canvasWidth - (padding * 2)
textLineHeight == 20
logoHeight == 80
DefaultQrSize == 120
BaseHeight == 500

\* ctx.measureText(s).width under DEFAULT_FONT, a 16px monospace face:
\* every character is CharWidth pixels wide
CharWidth == 10
measureText(s) == CharWidth * Len(s)

\* lines 163-170
ImageDiscountAmount(subtotal, discount) ==
    IF discount.present
    THEN IF discount.type = "percentage"
         THEN NumMul(subtotal, NumDiv(discount.value, Num(100)))
         ELSE discount.value
    ELSE Num(0)

\* ImageTotals with the VAT computed on the taxed amount
ImageTotalsCascading(subtotal, discount, taxRate, vatRate) ==
    LET discountAmount == ImageDiscountAmount(subtotal, discount)
        subtotalAfterDiscount == NumSub(subtotal, discountAmount)
        tax == NumMul(subtotalAfterDiscount, taxRate)
        vat == NumMul(NumAdd(subtotalAfterDiscount, tax), vatRate)
    IN [subtotal |-> subtotal, discountAmount |-> discountAmount,
        subtotalAfterDiscount |-> subtotalAfterDiscount, tax |-> tax,
        vat |-> vat, total |-> NumAdd(NumAdd(subtotalAfterDiscount, tax), vat)]

ImageTotals(subtotal, discount, taxRate, vatRate) ==
    LET discountAmount == ImageDiscountAmount(subtotal, discount)
        subtotalAfterDiscount == NumSub(subtotal, discountAmount)
        tax == NumMul(subtotalAfterDiscount, taxRate)
        vat == NumMul(subtotalAfterDiscount, vatRate)
    IN [subtotal |-> subtotal, discountAmount |-> discountAmount,
        subtotalAfterDiscount |-> subtotalAfterDiscount, tax |-> tax,
        vat |-> vat, total |-> NumAdd(NumAdd(subtotalAfterDiscount, tax), vat)]

\* lines 179-184: qrCode.size || 120 when qrCode && qrCode.data
QrCodeSize(qrCode) ==
    IF qrCode.data # <<>>
    THEN (IF qrCode.size # 0 THEN qrCode.size ELSE DefaultQrSize)
    ELSE 0

QrCodeHeight(qrCode) ==
    IF qrCode.data # <<>> THEN QrCodeSize(qrCode) + 20 ELSE 0

\* line 187
EstimatedHeight(lineItems, qrCode) ==
    BaseHeight + (Len(lineItems) * textLineHeight * 2) + QrCodeHeight(qrCode)

\* the body of the loop of lines 262-270 on st = [lines, currentLine]
ImageWrapStep(st, word, maxNameWidth) ==
    LET testLine == IF st.currentLine # <<>>
                    THEN st.currentLine \o <<" ">> \o word
                    ELSE word
    IN IF measureText(testLine) > maxNameWidth /\ Len(st.currentLine) > 0
       THEN [lines |-> Append(st.lines, Trim(st.currentLine)),
             currentLine |-> word \o <<" ">>]
       ELSE [lines |-> st.lines, currentLine |-> testLine \o <<" ">>]

RECURSIVE ImageWrapLoop(_, _, _)
ImageWrapLoop(words, k, maxNameWidth) ==
    IF k = 0 THEN [lines |-> <<>>, currentLine |-> <<>>]
    ELSE ImageWrapStep(ImageWrapLoop(words, k - 1, maxNameWidth), words[k],
                       maxNameWidth)

\* lines 259-271: the lines of `name` under the pixel budget maxNameWidth
ImageWrap(name, maxNameWidth) ==
    LET st == ImageWrapLoop(Split(name), Len(Split(name)), maxNameWidth)
    IN Append(st.lines, Trim(st.currentLine))

\* lines 254-271
ImageNameLines(item, currency) ==
    LET priceText == currency \o toFixed2(item.total)
        qtyText == ToStringJs(item.quantity) \o <<"x">>
        maxNameWidth == contentWidth - measureText(priceText)
                            - measureText(qtyText) - 15
        st == ImageWrapLoop(Split(item.name), Len(Split(item.name)), maxNameWidth)
    IN Append(st.lines, Trim(st.currentLine))

\* One layout operation: paint `row` at currentY + at (when paint), then
\* advance the cursor by adv.
Op(row, paint, at, adv) == [row |-> row, paint |-> paint, at |-> at, adv |-> adv]
Space(adv) == Op(Row("space", <<>>, <<>>, <<>>, <<>>), FALSE, 0, adv)
\* drawLine, lines 236-244
DrawLineOp == Op(Row("rule", <<>>, <<>>, <<>>, <<>>), TRUE, textLineHeight \div 2,
                 textLineHeight)
\* drawSubTotalLine, lines 289-295
SubTotalLineOp(label, value) ==
    Op(Row("summary", label, <<>>, <<>>, value), TRUE, 0, textLineHeight)

\* ImageItemOps with the continuation lines painted without moving the
\* cursor
ImageItemOpsNoAdvance(item, currency) ==
    LET nameLines == ImageNameLines(item, currency)
    IN <<Op(Row("item", <<>>, ToStringJs(item.quantity) \o <<"x">>, nameLines[1],
                currency \o toFixed2(item.total)), TRUE, 0, textLineHeight)>>
         \o [i \in 1..(Len(nameLines) - 1) |->
                Op(Row("cont", <<>>, <<>>, nameLines[i + 1], <<>>), TRUE, 0, 0)]

\* lines 273-284: the rows of one line item
ImageItemOps(item, currency) ==
    LET nameLines == ImageNameLines(item, currency)
    IN <<Op(Row("item", <<>>, ToStringJs(item.quantity) \o <<"x">>, nameLines[1],
                currency \o toFixed2(item.total)), TRUE, 0, textLineHeight)>>
         \o [i \in 1..(Len(nameLines) - 1) |->
                Op(Row("cont", <<>>, <<>>, nameLines[i + 1], <<>>), TRUE, 0,
                   textLineHeight)]

\* lines 296-305
ImageSummaryOps(t, discount, taxRate, vatRate, currency) ==
    <<SubTotalLineOp(<<"Subtotal">>, currency \o toFixed2(t.subtotal))>>
    \o (IF NumGt(t.discountAmount, Num(0))
        THEN <<SubTotalLineOp(
                   IF discount.type = "percentage"
                   THEN <<"Discount (", NumToString(discount.value), "%)">>
                   ELSE <<"Discount">>,
                   <<"-">> \o currency \o toFixed2(t.discountAmount))>>
        ELSE <<>>)
    \o (IF NumGt(t.vat, Num(0))
        THEN <<SubTotalLineOp(<<"VAT (", toFixed2(NumMul(vatRate, Num(100))), "%)">>,
                              currency \o toFixed2(t.vat))>>
        ELSE <<>>)
    \o (IF NumGt(t.tax, Num(0))
        THEN <<SubTotalLineOp(<<"Tax (", toFixed2(NumMul(taxRate, Num(100))), "%)">>,
                              currency \o toFixed2(t.tax))>>
        ELSE <<>>)
    \o <<DrawLineOp,
         SubTotalLineOp(<<"TOTAL">>, currency \o toFixed2(t.total)),
         Space(10)>>

\* lines 221-313: everything painted between the logo and the QR code
LayoutOps(rd, lineItems, t) ==
    <<Op(Row("store", <<>>, <<>>, <<>>, <<>>), TRUE, 0, 30)>>
    \o (IF rd.companyAddress # <<>>
        THEN <<Op(Row("address", <<>>, <<>>, rd.companyAddress, <<>>), TRUE, 0, 20)>>
        ELSE <<>>)
    \o <<Space(10), DrawLineOp,
         Op(Row("header", <<>>, <<>>, <<>>, <<>>), TRUE, 0, textLineHeight),
         DrawLineOp>>
    \o Concat([i \in 1..Len(lineItems) |-> ImageItemOps(lineItems[i], rd.currency)])
    \o <<DrawLineOp>>
    \o ImageSummaryOps(t, rd.discount, rd.taxRate, rd.vatRate, rd.currency)
    \o <<Space(textLineHeight),
         Op(Row("thanks", <<>>, <<>>, <<>>, <<>>), TRUE, 0, textLineHeight + 10)>>

\* run layout operations on a call state: painted rows keep their y
RECURSIVE Paint(_, _)
Paint(st, ops) ==
    IF ops = <<>> THEN st
    ELSE LET op == Head(ops)
         IN Paint([st EXCEPT
                      !.rows = IF op.paint
                               THEN Append(@, [row |-> op.row,
                                               y |-> st.currentY + op.at])
                               ELSE @,
                      !.currentY = @ + op.adv],
                  Tail(ops))

\* --------------------------------------------------------------- state
VARIABLES
    receiptData,    \* the argument of the calls
    isNode,         \* line 3: the module runs under Node.js (file context)
    calcOut,        \* what calculateLineItems(receiptData.items) gave
    wrapIn,         \* [text, maxLength], the arguments of a wrapText call
    wrapOut,        \* what wrapText gave
    textOut,        \* what generateReceipt(receiptData) gave
    img,            \* the generateReceiptImage call: its position and locals
    fsWrites,       \* the fs.promises.writeFile invocations so far
    localStorage,   \* the browser's localStorage: the keys set
    args,           \* two concurrent calls: [receiptData, outputPath] of each
    calls,          \* two concurrent calls: the position and locals of each
    storage,        \* localStorage, key -> the value set and the call that set it
    files,          \* the file system, path -> the buffer written and by which call
    nameLinesOut    \* what the name-wrapping loop of the image renderer gave

vars == <<receiptData, isNode, calcOut, wrapIn, wrapOut, textOut, img, fsWrites,
          localStorage, args, calls, storage, files, nameLinesOut>>

\* the state of the two concurrent calls and of what they may share
concurrentVars == <<args, calls, storage, files>>

NotCalled == [status |-> "none"]

\* generateReceiptImage before it is called.  log is the history of the
\* stages the call went through; failed, the collaborators that failed.
ImgIdle ==
    [pc |-> "idle", currentY |-> 0, estimatedHeight |-> 0, finalHeight |-> 0,
     qrCodeSize |-> 0, lineItems |-> <<>>, totals |-> NoTotals, rows |-> <<>>,
     log |-> <<>>, failed |-> {}, error |-> "", returned |-> ""]

\* the call rejects with the error of `stage`
ImgReject(st, stage) ==
    [st EXCEPT !.pc = "rejected", !.error = stage, !.failed = @ \cup {stage}]

\* Finalize invoking the file write whether or not the encoding succeeded
FinalizeWritesUnencoded(st, rd, node, ch) ==
    IF ~ch.finalOk THEN ImgReject(st, "surface")
    ELSE LET s1 == [st EXCEPT !.finalHeight = st.currentY + padding,
                              !.log = Append(@, "finalize")]
         IN IF node
            THEN [s1 EXCEPT !.pc = "write",
                            !.failed = IF ch.encodeOk THEN @ ELSE @ \cup {"encode"},
                            !.log = Append(@, "writeFile")]
            ELSE IF ~ch.encodeOk THEN ImgReject(s1, "encode")
            ELSE [s1 EXCEPT !.pc = "resolved", !.returned = "undefined",
                            !.log = Append(@, "encode")]

\* lines 329-357.  ch.finalOk: the second surface is created; ch.encodeOk:
\* toBuffer / toDataURL succeeds.  In the file context the call ends at the
\* await of fs.promises.writeFile, which has been invoked (pc = "write").
Finalize(st, rd, node, ch) ==
    IF ~ch.finalOk THEN ImgReject(st, "surface")
    ELSE LET s1 == [st EXCEPT !.finalHeight = st.currentY + padding,
                              !.log = Append(@, "finalize")]
         IN IF ~ch.encodeOk THEN ImgReject(s1, "encode")
            ELSE IF node
            THEN [s1 EXCEPT !.pc = "write", !.log = @ \o <<"encode", "writeFile">>]
            ELSE IF rd.outputType = "dataURL"
            THEN [s1 EXCEPT !.pc = "resolved", !.returned = "dataURL",
                            !.log = Append(@, "encode")]
            ELSE [s1 EXCEPT !.pc = "resolved", !.returned = "undefined",
                            !.log = @ \o <<"encode", "download">>]

\* lines 221-313: the layout is painted on the measurement surface
Layout(st, rd) ==
    [Paint(st, LayoutOps(rd, st.lineItems, st.totals)) EXCEPT
        !.log = Append(@, "layout")]

\* lines 315-357 up to the next await: the QR stage, or the finalize pass
AfterLayout(st, rd, node, ch) ==
    IF rd.qrCode.data # <<>>
    THEN [st EXCEPT !.pc = "qrEncode"]
    ELSE Finalize(st, rd, node, ch)

\* lines 161-187: the locals of the call before the measurement surface is
\* created; an exception of calculateLineItems rejects the call
ImgLocals(rd) ==
    LET calc == calculateLineItems(rd.items)
    IN IF calc.threw
       THEN [ImgIdle EXCEPT !.pc = "rejected", !.error = "TypeError"]
       ELSE [ImgIdle EXCEPT
                !.pc = "canvas",
                !.lineItems = calc.lineItems,
                !.totals = ImageTotals(calc.subtotal, rd.discount, rd.taxRate,
                                       rd.vatRate),
                !.qrCodeSize = QrCodeSize(rd.qrCode),
                !.estimatedHeight = EstimatedHeight(calc.lineItems, rd.qrCode),
                !.currentY = padding]

\* lines 188-201: the measurement surface is created (ch.canvasOk) and
\* painted white
CanvasCreated(st) == [st EXCEPT !.log = <<"canvas">>]

\* lines 188-221: from the locals to the first await.  laid is
\* Layout(CanvasCreated(entry), rd), what the layout gives when there is
\* no logo to wait for.
ImgStart(entry, laid, rd, node, ch) ==
    IF entry.pc = "rejected" THEN entry
    ELSE IF ~ch.canvasOk THEN ImgReject(entry, "surface")
    ELSE IF rd.logoPath # <<>> THEN [CanvasCreated(entry) EXCEPT !.pc = "logo"]
    ELSE AfterLayout(laid, rd, node, ch)

\* lines 152-159: localStorage.setItem threw and the catch clause logged it
StorageFailed(st) == [st EXCEPT !.failed = @ \cup {"storage"}]

\* lines 212-215: the logo is decoded and painted
LogoDrawn(st) ==
    Paint([st EXCEPT !.log = Append(@, "logo")],
          <<Op(Row("logo", <<>>, <<>>, <<>>, <<>>), TRUE, 0, logoHeight + 10)>>)

\* LogoFailed with the cursor moved past the logo that was not drawn
LogoFailedAdvances(st) ==
    [st EXCEPT !.failed = @ \cup {"logo"}, !.currentY = @ + logoHeight + 10]

\* lines 216-218: the catch clause
LogoFailed(st) == [st EXCEPT !.failed = @ \cup {"logo"}]

\* lines 324-326: the QR image is painted
QrDrawn(st) ==
    Paint([st EXCEPT !.log = Append(@, "qr")],
          <<Op(Row("qr", <<>>, <<>>, <<>>, <<>>), TRUE, 0, st.qrCodeSize + 10)>>)

Choices == [storageOk : BOOLEAN, canvasOk : BOOLEAN, finalOk : BOOLEAN,
            encodeOk : BOOLEAN]

\* the two concurrent calls
Calls == {1, 2}

\* line 154: the one key every call saves under
StorageKey == "lastReceiptData"

\* line 138: the default of the outputPath parameter
DefaultOutputPath == "receipt.png"

\* a storage key never set, a file never written
Unset == [by |-> 0]

\* Buffer encoding the measurement surface instead of the final one
BufferOfMeasurementSurface(st) == [height |-> st.estimatedHeight, rows |-> st.rows]

\* line 342: the PNG of the final surface, its height and what is painted
Buffer(st) == [height |-> st.finalHeight, rows |-> st.rows]

\* ------------------------------------------------------------- actions
\* a call of calculateLineItems(items)
CalcCall ==
    /\ calcOut.status = "none"
    /\ calcOut' = [status |-> "called", out |-> calculateLineItems(receiptData.items)]
    /\ UNCHANGED <<receiptData, isNode, wrapIn, wrapOut, textOut, img, fsWrites,
                   localStorage, concurrentVars, nameLinesOut>>

\* a call of wrapText(text, maxLength)
WrapCall ==
    /\ wrapOut = <<"none">>
    /\ wrapOut' = <<"lines", wrapText(wrapIn.text, wrapIn.maxLength)>>
    /\ UNCHANGED <<receiptData, isNode, calcOut, wrapIn, textOut, img, fsWrites,
                   localStorage, concurrentVars, nameLinesOut>>

\* the name-wrapping loop of the image renderer (lines 259-271) on the
\* text and budget of the wrapText call, the budget in characters: every
\* character measures CharWidth pixels
NameLinesCall ==
    /\ nameLinesOut = <<"none">>
    /\ nameLinesOut' = <<"lines", ImageWrap(wrapIn.text, CharWidth * wrapIn.maxLength)>>
    /\ UNCHANGED <<receiptData, isNode, calcOut, wrapIn, wrapOut, textOut, img,
                   fsWrites, localStorage, concurrentVars>>

\* a call of generateReceipt(receiptData)
TextCall ==
    /\ textOut.status = "none"
    /\ textOut' = generateReceipt(receiptData)
    /\ UNCHANGED <<receiptData, isNode, calcOut, wrapIn, wrapOut, img, fsWrites,
                   localStorage, concurrentVars, nameLinesOut>>

\* what a step of the image call does to the world outside it
ImgEffects ==
    /\ fsWrites' = IF img'.pc = "write" THEN fsWrites + 1 ELSE fsWrites
    /\ UNCHANGED <<receiptData, isNode, calcOut, wrapIn, wrapOut, textOut,
                   concurrentVars, nameLinesOut>>

\* generateReceiptImage(receiptData, outputPath) is called and runs to its
\* first await (or to its end)
ImgCall ==
    /\ img.pc = "idle"
    /\ LET entry == ImgLocals(receiptData)
           laid == Layout(CanvasCreated(entry), receiptData)
           saves == ~isNode /\ receiptData.saveToBrowserStorage
       IN \E ch \in Choices :
             /\ img' = IF saves /\ ~ch.storageOk
                       THEN StorageFailed(ImgStart(entry, laid, receiptData,
                                                   isNode, ch))
                       ELSE ImgStart(entry, laid, receiptData, isNode, ch)
             /\ localStorage' = IF saves /\ ch.storageOk
                                THEN localStorage \cup {"lastReceiptData"}
                                ELSE localStorage
    /\ ImgEffects

\* the logo loader resolves
LogoResolve ==
    /\ img.pc = "logo"
    /\ LET laid == Layout(LogoDrawn(img), receiptData)
       IN \E ch \in Choices : img' = AfterLayout(laid, receiptData, isNode, ch)
    /\ UNCHANGED localStorage
    /\ ImgEffects

\* the logo loader rejects
LogoReject ==
    /\ img.pc = "logo"
    /\ LET laid == Layout(LogoFailed(img), receiptData)
       IN \E ch \in Choices : img' = AfterLayout(laid, receiptData, isNode, ch)
    /\ UNCHANGED localStorage
    /\ ImgEffects

\* QRCode.toDataURL resolves: the call awaits the decoding of the QR image
QrEncodeResolve ==
    /\ img.pc = "qrEncode"
    /\ img' = [img EXCEPT !.pc = "qrDecode"]
    /\ UNCHANGED localStorage
    /\ ImgEffects

QrEncodeReject ==
    /\ img.pc = "qrEncode"
    /\ img' = ImgReject(img, "qrEncode")
    /\ UNCHANGED localStorage
    /\ ImgEffects

\* the QR image is decoded: it is painted and the call goes on to the
\* finalize pass
QrDecodeResolve ==
    /\ img.pc = "qrDecode"
    /\ LET drawn == QrDrawn(img)
       IN \E ch \in Choices : img' = Finalize(drawn, receiptData, isNode, ch)
    /\ UNCHANGED localStorage
    /\ ImgEffects

QrDecodeReject ==
    /\ img.pc = "qrDecode"
    /\ img' = ImgReject(img, "qrDecode")
    /\ UNCHANGED localStorage
    /\ ImgEffects

\* fs.promises.writeFile resolves: the function returns undefined
WriteResolve ==
    /\ img.pc = "write"
    /\ img' = [img EXCEPT !.pc = "resolved", !.returned = "undefined",
                          !.log = Append(@, "written")]
    /\ UNCHANGED localStorage
    /\ ImgEffects

WriteReject ==
    /\ img.pc = "write"
    /\ img' = ImgReject(img, "write")
    /\ UNCHANGED localStorage
    /\ ImgEffects

\* ---------------------------------------- actions of two concurrent calls
\* what a step of call c leaves alone
CallEffects ==
    UNCHANGED <<receiptData, isNode, calcOut, wrapIn, wrapOut, textOut, img,
                fsWrites, localStorage, args, nameLinesOut>>

\* call c goes on to st
Resume(c, st) ==
    /\ calls' = [calls EXCEPT ![c] = st]
    /\ UNCHANGED <<storage, files>>
    /\ CallEffects

\* lines 138-221: call c is invoked and runs to its first await (or to its
\* end); in the browser it first saves its receiptData under StorageKey
CallStart(c) ==
    /\ calls[c].pc = "idle"
    /\ LET rd == args[c].receiptData
           entry == ImgLocals(rd)
           laid == Layout(CanvasCreated(entry), rd)
           saves == ~isNode /\ rd.saveToBrowserStorage
       IN \E ch \in Choices :
             /\ calls' = [calls EXCEPT ![c] =
                             IF saves /\ ~ch.storageOk
                             THEN StorageFailed(ImgStart(entry, laid, rd, isNode, ch))
                             ELSE ImgStart(entry, laid, rd, isNode, ch)]
             /\ storage' = IF saves /\ ch.storageOk
                           THEN [storage EXCEPT ![StorageKey] =
                                    [by |-> c, value |-> rd]]
                           ELSE storage
    /\ UNCHANGED files
    /\ CallEffects

\* lines 206-215: the logo of call c is decoded
CallLogoResolve(c) ==
    /\ calls[c].pc = "logo"
    /\ LET rd == args[c].receiptData
           laid == Layout(LogoDrawn(calls[c]), rd)
       IN \E ch \in Choices : Resume(c, AfterLayout(laid, rd, isNode, ch))

\* lines 216-218: the logo of call c fails to load
CallLogoReject(c) ==
    /\ calls[c].pc = "logo"
    /\ LET rd == args[c].receiptData
           laid == Layout(LogoFailed(calls[c]), rd)
       IN \E ch \in Choices : Resume(c, AfterLayout(laid, rd, isNode, ch))

\* line 318
CallQrEncodeResolve(c) ==
    /\ calls[c].pc = "qrEncode"
    /\ Resume(c, [calls[c] EXCEPT !.pc = "qrDecode"])

CallQrEncodeReject(c) ==
    /\ calls[c].pc = "qrEncode"
    /\ Resume(c, ImgReject(calls[c], "qrEncode"))

\* lines 319-357
CallQrDecodeResolve(c) ==
    /\ calls[c].pc = "qrDecode"
    /\ LET drawn == QrDrawn(calls[c])
       IN \E ch \in Choices :
             Resume(c, Finalize(drawn, args[c].receiptData, isNode, ch))

CallQrDecodeReject(c) ==
    /\ calls[c].pc = "qrDecode"
    /\ Resume(c, ImgReject(calls[c], "qrDecode"))

\* line 343: the write of call c completes; the file at its outputPath
\* holds its buffer
CallWriteResolve(c) ==
    /\ calls[c].pc = "write"
    /\ calls' = [calls EXCEPT ![c] =
                    [calls[c] EXCEPT !.pc = "resolved", !.returned = "undefined",
                                     !.log = Append(@, "written")]]
    /\ files' = [files EXCEPT ![args[c].outputPath] =
                    [by |-> c, buffer |-> Buffer(calls[c])]]
    /\ UNCHANGED storage
    /\ CallEffects

CallWriteReject(c) ==
    /\ calls[c].pc = "write"
    /\ Resume(c, ImgReject(calls[c], "write"))

\* ------------------------------------------------------ input domains
RECURSIVE Word(_)
\* a word of n letters
Word(n) == IF n = 0 THEN <<>> ELSE <<"a">> \o Word(n - 1)

RECURSIVE Name(_)
\* the words of the given lengths joined by single spaces; a word of
\* length 0 makes a leading, trailing or doubled space
Name(lens) ==
    IF Len(lens) = 1 THEN Word(lens[1])
    ELSE Word(lens[1]) \o <<" ">> \o Name(Tail(lens))

SeqsUpTo(S, n) == UNION {[1..m -> S] : m \in 0..n}

Item(name, quantity, price) == [name |-> name, quantity |-> quantity, price |-> price]
NoDiscount == [present |-> FALSE, type |-> "", value |-> Num(0)]
Discount(type, value) == [present |-> TRUE, type |-> type, value |-> value]
NoQr == [data |-> <<>>, size |-> 0]

ReceiptData(items, discount, taxRate, vatRate, address, logoPath, qrCode, out, save) ==
    [items |-> items, discount |-> discount, taxRate |-> taxRate,
     vatRate |-> vatRate, currency |-> <<"$">>, companyAddress |-> address,
     logoPath |-> logoPath, qrCode |-> qrCode, outputType |-> out,
     saveToBrowserStorage |-> save]

\* well-typed items: a short name, a name that wraps in both renderers,
\* prices with cents, and a negative quantity
ItemPool ==
    {Item(Name(<<4>>), Num(2), Rat(350, 100)),
     Item(Name(<<12, 12, 12>>), Num(1), Num(3)),
     Item(Name(<<5, 30>>), Num(-1), Num(1))}

DiscountPool ==
    {NoDiscount, Discount("percentage", Num(10)), Discount("fixed", Num(5)),
     Discount("fixed", Num(20)), Discount("fixed", Num(-5))}

\* the environments: Node.js, or a browser with its two browser-only options
EnvPool ==
    {[node |-> TRUE, outputType |-> "", save |-> FALSE]}
    \cup {[node |-> FALSE, outputType |-> o, save |-> s] :
              o \in {"", "dataURL"}, s \in BOOLEAN}

\* the output paths of the concurrent calls
PathPool == {DefaultOutputPath, "b.png"}

ConcurrentIdle ==
    /\ calls = [c \in Calls |-> ImgIdle]
    /\ storage = [k \in {StorageKey} |-> Unset]
    /\ files = [p \in PathPool |-> Unset]

\* the specifications of a single call leave the two concurrent calls idle
NoConcurrentCalls ==
    /\ args = [c \in Calls |->
                  [receiptData |-> ReceiptData(<<>>, NoDiscount, Num(0), Num(0),
                                               <<>>, <<>>, NoQr, "", FALSE),
                   outputPath |-> DefaultOutputPath]]
    /\ ConcurrentIdle

Idle ==
    /\ calcOut = NotCalled
    /\ wrapIn = [text |-> <<>>, maxLength |-> 0]
    /\ wrapOut = <<"none">>
    /\ textOut = NotCalled
    /\ img = ImgIdle
    /\ fsWrites = 0
    /\ localStorage = {}
    /\ nameLinesOut = <<"none">>
    /\ NoConcurrentCalls

\* ------------------------------------------------------ specifications
\* Both renderers on well-typed receipt data, in either environment.  Two
\* families of inputs: every item list, discount and rate under two fixed
\* environments; and every environment under a few item lists.
RatePool == {Num(0), Rat(8, 100), Rat(20, 100)}

QrPool == {NoQr, [data |-> <<"q">>, size |-> 0], [data |-> <<"q">>, size |-> 100]}

PricingInputs ==
    {<<ReceiptData(items, discount, taxRate, vatRate, Name(<<3, 4>>), logoPath,
                   qrCode, "", FALSE), TRUE>> :
        items \in SeqsUpTo(ItemPool, MaxItems), discount \in DiscountPool,
        taxRate \in RatePool, vatRate \in {Num(0), Rat(20, 100)},
        logoPath \in {<<"l">>}, qrCode \in {[data |-> <<"q">>, size |-> 0]}}

EnvironmentInputs ==
    {<<ReceiptData(items, Discount("percentage", Num(10)), Rat(8, 100), Num(0),
                   companyAddress, logoPath, qrCode, env.outputType, env.save),
       env.node>> :
        items \in {<<>>, <<Item(Name(<<12, 12, 12>>), Num(1), Num(3))>>},
        companyAddress \in {<<>>, Name(<<3, 4>>)}, logoPath \in {<<>>, <<"l">>},
        qrCode \in QrPool, env \in EnvPool}

Init ==
    /\ \E in \in PricingInputs \cup EnvironmentInputs :
          /\ receiptData = in[1]
          /\ isNode = in[2]
    /\ Idle

Next ==
    \/ TextCall
    \/ ImgCall
    \/ LogoResolve
    \/ LogoReject
    \/ QrEncodeResolve
    \/ QrEncodeReject
    \/ QrDecodeResolve
    \/ QrDecodeReject
    \/ WriteResolve
    \/ WriteReject

Spec == Init /\ [][Next]_vars

\* the values a caller may put in an item's quantity
QuantityValues ==
    {Num(2), Num(0), Num(-1), NaN, Infinity, Undefined, Str(<<"x">>),
     Str(<<"2">>), Str(<<"2", "x">>), Str(<<>>), BigInt(2), Symbol}

PriceValues == {Rat(350, 100), Num(0), Num(-1), Str(<<"x">>), BigInt(3)}

\* calculateLineItems and generateReceipt on items with any quantity and
\* price
InitItems ==
    /\ \E items \in SeqsUpTo({Item(Name(<<4>>), q, p) :
                                 q \in QuantityValues, p \in PriceValues}, MaxItems) :
          receiptData = ReceiptData(items, NoDiscount, Num(0), Num(0), <<>>, <<>>,
                                    NoQr, "", FALSE)
    /\ isNode = TRUE
    /\ Idle

NextItems == CalcCall \/ TextCall

SpecItems == InitItems /\ [][NextItems]_vars

\* wrapText on every text of at most MaxWords words of at most MaxWordLen
\* letters, and every budget
InitWrap ==
    /\ receiptData = ReceiptData(<<>>, NoDiscount, Num(0), Num(0), <<>>, <<>>,
                                 NoQr, "", FALSE)
    /\ isNode = TRUE
    /\ calcOut = NotCalled
    /\ \E lens \in SeqsUpTo(0..MaxWordLen, MaxWords) \ {<<>>},
          maxLength \in (-1)..MaxBudget :
          wrapIn = [text |-> Name(lens), maxLength |-> maxLength]
    /\ wrapOut = <<"none">>
    /\ textOut = NotCalled
    /\ img = ImgIdle
    /\ fsWrites = 0
    /\ localStorage = {}
    /\ nameLinesOut = <<"none">>
    /\ NoConcurrentCalls

NextWrap == WrapCall

SpecWrap == InitWrap /\ [][NextWrap]_vars

\* wrapText and the name-wrapping loop of the image renderer on the same
\* text and budget
NextWrapBoth == WrapCall \/ NameLinesCall

SpecWrapBoth == InitWrap /\ [][NextWrapBoth]_vars

\* Two generateReceiptImage calls in flight together, in either environment,
\* each with its own receiptData and outputPath (the default one or another).
ConcurrentReceipts ==
    {ReceiptData(<<Item(Name(<<4>>), Num(2), Rat(350, 100))>>, NoDiscount,
                 Rat(8, 100), Num(0), Name(<<3, 4>>), <<"l">>,
                 [data |-> <<"q">>, size |-> 0], "", TRUE),
     ReceiptData(<<Item(Name(<<12, 12, 12>>), Num(1), Num(3))>>,
                 Discount("fixed", Num(1)), Num(0), Num(0), <<>>, <<>>, NoQr,
                 "dataURL", TRUE),
     ReceiptData(<<>>, NoDiscount, Num(0), Num(0), <<>>, <<"l">>, NoQr, "", FALSE)}

InitConcurrent ==
    /\ receiptData = ReceiptData(<<>>, NoDiscount, Num(0), Num(0), <<>>, <<>>,
                                 NoQr, "", FALSE)
    /\ isNode \in BOOLEAN
    /\ calcOut = NotCalled
    /\ wrapIn = [text |-> <<>>, maxLength |-> 0]
    /\ wrapOut = <<"none">>
    /\ textOut = NotCalled
    /\ img = ImgIdle
    /\ fsWrites = 0
    /\ localStorage = {}
    /\ nameLinesOut = <<"none">>
    /\ args \in [Calls -> [receiptData : ConcurrentReceipts, outputPath : PathPool]]
    /\ ConcurrentIdle

NextConcurrent ==
    \E c \in Calls :
        \/ CallStart(c)
        \/ CallLogoResolve(c)
        \/ CallLogoReject(c)
        \/ CallQrEncodeResolve(c)
        \/ CallQrEncodeReject(c)
        \/ CallQrDecodeResolve(c)
        \/ CallQrDecodeReject(c)
        \/ CallWriteResolve(c)
        \/ CallWriteReject(c)

SpecConcurrent == InitConcurrent /\ [][NextConcurrent]_vars

\* Both renderers on receipts whose item names wrap into many lines: names
\* of 1 to MaxNameLines words of 30 letters, one line each in the image
\* (a line holds 32 to 34 characters beside quantity and total), with and
\* without logo, address, discount, VAT, tax and QR code.
LongNameItems ==
    {Item(Name([i \in 1..n |-> 30]), Num(1), Num(3)) : n \in {1, 3, MaxNameLines}}

InitHeight ==
    /\ \E items \in SeqsUpTo(LongNameItems, MaxItems),
          companyAddress \in {<<>>, Name(<<3, 4>>)}, logoPath \in {<<>>, <<"l">>},
          qrCode \in {NoQr, [data |-> <<"q">>, size |-> 0]},
          rates \in {[discount |-> NoDiscount, taxRate |-> Num(0), vatRate |-> Num(0)],
                     [discount |-> Discount("percentage", Num(10)),
                      taxRate |-> Rat(8, 100), vatRate |-> Rat(20, 100)]} :
          receiptData = ReceiptData(items, rates.discount, rates.taxRate,
                                    rates.vatRate, companyAddress, logoPath,
                                    qrCode, "", FALSE)
    /\ isNode = TRUE
    /\ Idle

SpecHeight == InitHeight /\ [][Next]_vars

\* =============================================================== claims
\* a value that is a finite non-negative number (a number, or a string
\* or BigInt that spells one)
FiniteNonNegative(v) ==
    \/ v.k = "num" /\ v.n >= 0
    \/ v.k = "bigint" /\ v.n >= 0
    \/ v.k = "str" /\ Trim(v.s) # <<>> /\ ToNumber(v).k = "num" /\ ToNumber(v).n >= 0

\* C1 (as claimed): calculateLineItems returns one line item per input item,
\* in the same order, and every item whose quantity or price is not a finite
\* non-negative number comes out with quantity 0, price 0 and total 0.
C1_InvalidItemsBecomeZero ==
    calcOut.status = "called" =>
        /\ ~calcOut.out.threw
        /\ Len(calcOut.out.lineItems) = Len(receiptData.items)
        /\ \A i \in 1..Len(receiptData.items) :
              LET item == receiptData.items[i]
                  line == calcOut.out.lineItems[i]
              IN /\ line.name = item.name
                 /\ (~FiniteNonNegative(item.quantity) \/ ~FiniteNonNegative(item.price))
                       => /\ line.quantity = Num(0)
                          /\ line.price = Num(0)
                          /\ line.total = Num(0)

\* a number that is not negative: finite and >= 0, or +Infinity
NonNegativeNumber(v) == v.k \in {"num", "inf"} /\ Sign(v) >= 0

RECURSIVE SumOf(_)
\* the sum of a sequence of numbers
SumOf(xs) == IF xs = <<>> THEN Num(0) ELSE NumAdd(Head(xs), SumOf(Tail(xs)))

AllNonNegativeNumbers(items) ==
    \A i \in 1..Len(items) :
        NonNegativeNumber(items[i].quantity) /\ NonNegativeNumber(items[i].price)

\* C2: when every quantity and price is a non-negative number, each line
\* item's total is quantity x price and the subtotal is the sum of the
\* totals (0 for the empty list).
C2_TotalsAndSubtotal ==
    (calcOut.status = "called" /\ AllNonNegativeNumbers(receiptData.items)) =>
        LET items == receiptData.items
            out == calcOut.out
        IN /\ ~out.threw
           /\ Len(out.lineItems) = Len(items)
           /\ \A i \in 1..Len(items) :
                 out.lineItems[i].total = NumMul(items[i].quantity, items[i].price)
           /\ out.subtotal =
                 SumOf([i \in 1..Len(items) |->
                           NumMul(items[i].quantity, items[i].price)])

\* C2 witness: two items of 2 x 3.50 are priced 7 each and add up to 14
C2_Witness ==
    /\ calcOut.status = "called"
    /\ ~calcOut.out.threw
    /\ Len(receiptData.items) = 2
    /\ \A i \in 1..2 : /\ receiptData.items[i].quantity = Num(2)
                       /\ receiptData.items[i].price = Rat(350, 100)
                       /\ calcOut.out.lineItems[i].total = Num(7)
    /\ calcOut.out.subtotal = Num(14)

\* x is the finite number n/d (d > 0), by cross-multiplication
EqFrac(x, n, d) == x.k = "num" /\ x.n * d = n * x.d

\* the totals t are derived from the calculator's subtotal by the formulas:
\* discountAmount = S * V / 100 (percentage), V (any other type), 0 (no
\* discount); subtotalAfterDiscount = S - discountAmount; tax and vat are
\* subtotalAfterDiscount times their rate; total is the sum of the three
TotalsFollowFormulas(t, rd) ==
    LET S == t.subtotal
        V == rd.discount.value
        D == t.discountAmount
        A == t.subtotalAfterDiscount
    IN /\ S = calculateLineItems(rd.items).subtotal
       /\ S.k = "num"
       /\ IF ~rd.discount.present THEN D = Num(0)
          ELSE IF rd.discount.type = "percentage"
          THEN EqFrac(D, S.n * V.n, S.d * V.d * 100)
          ELSE D = V
       /\ EqFrac(A, S.n * D.d - D.n * S.d, S.d * D.d)
       /\ EqFrac(t.tax, A.n * rd.taxRate.n, A.d * rd.taxRate.d)
       /\ EqFrac(t.vat, A.n * rd.vatRate.n, A.d * rd.vatRate.d)
       /\ EqFrac(t.total,
                 A.n * t.tax.d * t.vat.d + t.tax.n * A.d * t.vat.d
                     + t.vat.n * A.d * t.tax.d,
                 A.d * t.tax.d * t.vat.d)

\* the image call has computed its totals (lines 161-170 have run)
ImgComputed == img.pc # "idle" /\ img.error # "TypeError"

\* C3: in both renderers the discount amount, the post-discount subtotal,
\* tax, vat and total follow the formulas, tax and vat both from the
\* post-discount subtotal and without clamping, and the two renderers
\* compute the same totals for the same input.
C3_TotalsFormulas ==
    /\ textOut.status = "returned" => TotalsFollowFormulas(textOut.totals, receiptData)
    /\ ImgComputed => TotalsFollowFormulas(img.totals, receiptData)
    /\ (textOut.status = "returned" /\ ImgComputed) => textOut.totals = img.totals

\* C3 witness: a fixed discount of 20 on a subtotal of 7 with 8% tax and 20%
\* VAT: -13 after discount, tax -1.04, vat -2.60, total -16.64, in both
C3_Witness ==
    /\ textOut.status = "returned"
    /\ img.pc = "resolved"
    /\ receiptData.discount = Discount("fixed", Num(20))
    /\ textOut.totals = [subtotal |-> Num(7), discountAmount |-> Num(20),
                         subtotalAfterDiscount |-> Num(-13),
                         tax |-> Rat(-104, 100), vat |-> Rat(-260, 100),
                         total |-> Rat(-1664, 100)]
    /\ img.totals = textOut.totals

\* C4 (as claimed): the discount amount is never negative, in either
\* renderer, whatever the discount.
C4_DiscountNeverNegative ==
    /\ textOut.status = "returned"
          => ~NumLt(textOut.totals.discountAmount, Num(0))
    /\ ImgComputed => ~NumLt(img.totals.discountAmount, Num(0))

RECURSIVE JoinBySpace(_)
\* the words ws joined by single spaces
JoinBySpace(ws) ==
    IF ws = <<>> THEN <<>>
    ELSE IF Len(ws) = 1 THEN ws[1]
    ELSE ws[1] \o <<" ">> \o JoinBySpace(Tail(ws))

RECURSIVE GreedyGroups(_, _, _)
\* The greedy grouping of the first k words (k >= 1), as lists of word
\* indices: the first word opens the first line; a later word joins the
\* current line exactly when the line joined with a space and the word is at
\* most `budget` wide, and otherwise opens a new line.
GreedyGroups(words, k, budget) ==
    IF k = 1 THEN << <<1>> >>
    ELSE LET g == GreedyGroups(words, k - 1, budget)
             cur == g[Len(g)]
             line == JoinBySpace([j \in 1..Len(cur) |-> words[cur[j]]])
         IN IF Len(line \o <<" ">> \o words[k]) <= budget
            THEN [g EXCEPT ![Len(g)] = Append(cur, k)]
            ELSE Append(g, <<k>>)

\* C5: wrapText is the greedy word wrap: its lines are the greedy groups of
\* the words of the text, each joined by spaces and trimmed; every line of
\* more than one word is at most maxLength wide; a word wider than maxLength
\* is a line of its own, whole.
C5_GreedyWrap ==
    wrapOut[1] = "lines" =>
        LET words == Split(wrapIn.text)
            budget == wrapIn.maxLength
            lines == wrapOut[2]
            groups == GreedyGroups(words, Len(words), budget)
        IN /\ Len(lines) = Len(groups)
           /\ \A i \in 1..Len(groups) :
                 /\ lines[i] = Trim(JoinBySpace([j \in 1..Len(groups[i]) |->
                                                    words[groups[i][j]]]))
                 /\ Len(groups[i]) > 1 => Len(lines[i]) <= budget
           /\ \A k \in 1..Len(words) :
                 Len(words[k]) > budget =>
                     \E i \in 1..Len(groups) :
                         groups[i] = <<k>> /\ lines[i] = words[k]

\* C5 witness: "a a aaaa" under a budget of 3 is wrapped to "a a" and the
\* over-long word "aaaa" alone
C5_Witness ==
    /\ wrapIn = [text |-> Name(<<1, 1, 4>>), maxLength |-> 3]
    /\ wrapOut = <<"lines", <<Name(<<1, 1>>), Name(<<4>>)>> >>

\* the stage e is in the history of the image call
Logged(e) == \E i \in DOMAIN img.log : img.log[i] = e

IsItemRow(r) == r.kind \in {"item", "cont"}
IsPaintedItemRow(p) == IsItemRow(p.row)

\* the rows the wrapped names call for: per item, one row with quantity and
\* total for the first name line, then one continuation row per further line
ExpectedItemRows(nameLines) ==
    Concat([i \in 1..Len(nameLines) |->
               [j \in 1..Len(nameLines[i]) |->
                   [kind |-> IF j = 1 THEN "item" ELSE "cont",
                    text |-> nameLines[i][j]]]])

\* rows, from the one after position h + 1 on, are exactly the expected item
\* rows, the first of each item with quantity and total and the others
\* without, and the row after them is of kind `after`
ItemRowsAt(rows, h, expected, after) ==
    /\ Len(SelectSeq(rows, IsItemRow)) = Len(expected)
    /\ Len(rows) > h + 1 + Len(expected)
    /\ \A j \in 1..Len(expected) :
          LET r == rows[h + 1 + j]
          IN /\ r.kind = expected[j].kind
             /\ r.text = expected[j].text
             /\ (r.kind = "item") = (r.qty # <<>> /\ r.value # <<>>)
    /\ rows[h + 2 + Len(expected)].kind = after

\* C6: in both renderers the item rows between the column header and the
\* summary block are, per item, one row per wrapped name line (the first
\* with quantity and total), so their number is the sum of the numbers of
\* name lines; in the image each row moves the cursor down one line height.
C6_ItemRowCount ==
    LET lineItems == calculateLineItems(receiptData.items).lineItems
        textLines == [i \in 1..Len(lineItems) |->
                         TextNameLines(lineItems[i], receiptData.currency)]
        imageLines == [i \in 1..Len(lineItems) |->
                          ImageNameLines(lineItems[i], receiptData.currency)]
    IN /\ textOut.status = "returned" =>
             LET rows == textOut.receipt
                 h == CHOOSE i \in 1..Len(rows) : rows[i].kind = "header"
             IN ItemRowsAt(rows, h, ExpectedItemRows(textLines), "blank")
       /\ Logged("layout") =>
             LET rows == [i \in 1..Len(img.rows) |-> img.rows[i].row]
                 h == CHOOSE i \in 1..Len(rows) : rows[i].kind = "header"
                 n == Len(ExpectedItemRows(imageLines))
                 y0 == img.rows[h].y + 2 * textLineHeight
             IN /\ ItemRowsAt(rows, h, ExpectedItemRows(imageLines), "rule")
                /\ \A j \in 1..n :
                      img.rows[h + 1 + j].y = y0 + (j - 1) * textLineHeight
                /\ img.rows[h + 2 + n].y =
                      y0 + n * textLineHeight + textLineHeight \div 2

\* C6 witness: a three-word name and a short one: the name takes three
\* lines in the text receipt and two in the image, so four and three rows
C6_Witness ==
    /\ textOut.status = "returned"
    /\ Logged("layout")
    /\ Len(receiptData.items) = 2
    /\ receiptData.items[1].name = Name(<<12, 12, 12>>)
    /\ receiptData.items[2].name = Name(<<4>>)
    /\ Len(SelectSeq(textOut.receipt, IsItemRow)) = 4
    /\ Len(SelectSeq(img.rows, IsPaintedItemRow)) = 3

IsSummaryRow(r) == r.kind = "summary"
Positive(x) == x.k \in {"num", "inf"} /\ Sign(x) > 0

\* the first words of the labels the summary block must show, in order
ExpectedSummary(t, rd) ==
    <<"Subtotal">>
    \o (IF Positive(t.discountAmount)
        THEN <<IF rd.discount.type = "percentage" THEN "Discount (" ELSE "Discount">>
        ELSE <<>>)
    \o (IF Positive(t.vat) THEN <<"VAT (">> ELSE <<>>)
    \o (IF Positive(t.tax) THEN <<"Tax (">> ELSE <<>>)
    \o <<"TOTAL">>

\* the summary rows among `rows` are the expected ones in the expected
\* order; a percentage discount is labelled "Discount (N%)" and any other
\* "Discount"; the discount value is shown with a minus sign
SummaryOk(rows, t, rd) ==
    LET s == SelectSeq(rows, IsSummaryRow)
    IN /\ [i \in 1..Len(s) |-> s[i].label[1]] = ExpectedSummary(t, rd)
       /\ \A i \in 1..Len(s) :
             /\ s[i].label[1] = "Discount (" =>
                   s[i].label = <<"Discount (", NumToString(rd.discount.value), "%)">>
             /\ s[i].label[1] = "Discount" => s[i].label = <<"Discount">>
             /\ s[i].label[1] \in {"Discount (", "Discount"} =>
                   s[i].value = <<"-">> \o rd.currency \o toFixed2(t.discountAmount)

\* C7: the summary block of both renderers shows Subtotal and TOTAL always,
\* the Discount row exactly when discountAmount > 0 ("Discount (N%)" for a
\* percentage discount, "Discount" otherwise, the value negative), the VAT
\* row exactly when vat > 0, the Tax row exactly when tax > 0, in the order
\* Subtotal, Discount, VAT, Tax, TOTAL.
C7_SummaryRows ==
    /\ textOut.status = "returned" =>
          SummaryOk(textOut.receipt, textOut.totals, receiptData)
    /\ Logged("layout") =>
          SummaryOk([i \in 1..Len(img.rows) |-> img.rows[i].row], img.totals,
                    receiptData)

\* C7 witness: 10% off 7.00 with 8% tax and 20% VAT: both renderers show all
\* five rows, the discount as "Discount (10%)" and "-$0.70"
C7_Witness ==
    LET discountRow == Row("summary", <<"Discount (", <<"1", "0">>, "%)">>, <<>>,
                           <<>>, <<"-", "$", "0", ".", "7", "0">>)
        textRows == SelectSeq(textOut.receipt, IsSummaryRow)
    IN /\ textOut.status = "returned"
       /\ Logged("layout")
       /\ [i \in 1..Len(textRows) |-> textRows[i].label[1]] =
             <<"Subtotal", "Discount (", "VAT (", "Tax (", "TOTAL">>
       /\ textRows[2] = discountRow
       /\ \E i \in 1..Len(img.rows) : img.rows[i].row = discountRow

\* C8 (as claimed): generateReceipt returns a receipt and does not throw,
\* whatever the quantity and price values of the items.
C8_TextNeverThrows == textOut.status # "threw"

\* the collaborators whose failure the call does not catch
Fatal == {"surface", "qrEncode", "qrDecode", "encode", "write"}

LogsBeforeWrite ==
    {<<"canvas">> \o logo \o <<"layout">>
         \o (IF receiptData.qrCode.data # <<>> THEN <<"qr">> ELSE <<>>)
         \o <<"finalize", "encode">> : logo \in {<<>>, <<"logo">>}}

\* C10: the file write is invoked at most once, only under Node.js and only
\* after the layout, the QR stage (when there is a QR code), the finalize
\* pass and the encoding, in that order, have succeeded; when any of them
\* fails no write is invoked.
C10_WriteOnlyAfterSuccess ==
    /\ fsWrites <= 1
    /\ (fsWrites = 1) = Logged("writeFile")
    /\ fsWrites = 1 =>
          /\ isNode
          /\ img.failed \cap {"surface", "qrEncode", "qrDecode", "encode"} = {}
          /\ \E i \in 1..Len(img.log) :
                /\ img.log[i] = "writeFile"
                /\ SubSeq(img.log, 1, i - 1) \in LogsBeforeWrite
    /\ img.failed \cap {"surface", "qrEncode", "qrDecode", "encode"} # {}
          => fsWrites = 0

\* C10 witness: a call with logo and QR code whose single write came after
\* every stage and succeeded
C10_Witness ==
    /\ fsWrites = 1
    /\ img.pc = "resolved"
    /\ img.log = <<"canvas", "logo", "layout", "qr", "finalize", "encode",
                   "writeFile", "written">>

\* what a call on rd lays out when it runs alone and its collaborators
\* answer as the history `log` records: the rows and the cursor
AloneLayout(rd, log) ==
    LET calc == calculateLineItems(rd.items)
        has(e) == \E i \in DOMAIN log : log[i] = e
        ops == (IF has("logo")
                THEN <<Op(Row("logo", <<>>, <<>>, <<>>, <<>>), TRUE, 0, logoHeight + 10)>>
                ELSE <<>>)
               \o (IF has("layout")
                   THEN LayoutOps(rd, calc.lineItems,
                                  ImageTotals(calc.subtotal, rd.discount, rd.taxRate,
                                              rd.vatRate))
                   ELSE <<>>)
               \o (IF has("qr")
                   THEN <<Op(Row("qr", <<>>, <<>>, <<>>, <<>>), TRUE, 0,
                             QrCodeSize(rd.qrCode) + 10)>>
                   ELSE <<>>)
    IN Paint([rows |-> <<>>, currentY |-> padding], ops)

\* the layout, the final surface height and the returned value of call c
\* are those of the call run alone
AsAlone(c) ==
    LET st == calls[c]
        rd == args[c].receiptData
        alone == AloneLayout(rd, st.log)
        finalized == \E i \in DOMAIN st.log : st.log[i] = "finalize"
    IN st.pc \notin {"idle"} /\ st.log # <<>> =>
          /\ st.rows = alone.rows
          /\ st.currentY = alone.currentY
          /\ st.finalHeight = (IF finalized THEN alone.currentY + padding ELSE 0)
          /\ st.returned = (IF st.pc # "resolved" THEN ""
                            ELSE IF ~isNode /\ rd.outputType = "dataURL"
                            THEN "dataURL" ELSE "undefined")

\* call c has set the storage key; call c has written its output file
WroteStorage(c) ==
    /\ calls[c].pc # "idle"
    /\ ~isNode
    /\ args[c].receiptData.saveToBrowserStorage
    /\ "storage" \notin calls[c].failed
WroteFile(c) == \E i \in DOMAIN calls[c].log : calls[c].log[i] = "written"

\* C11 (as claimed): two concurrent calls are fully independent: each call's
\* layout, final height and returned value are those of the call run alone,
\* and what a call wrote (storage key, output file) is not overwritten by
\* the other call.
C11_FullyIndependent ==
    \A c \in Calls :
        /\ AsAlone(c)
        /\ WroteStorage(c) => storage[StorageKey].by = c
        /\ WroteFile(c) => files[args[c].outputPath].by = c

\* C11 (amended): each call's layout, final height and returned value are
\* those of the call run alone; the calls share the storage key, which
\* holds the receiptData of the call that saved last, and share the output
\* file when they are given the same outputPath, which holds the image of
\* the call whose write completed last; with different outputPaths each
\* call's file is its own.
C11_IndependentButStorageAndFile ==
    /\ \A c \in Calls : AsAlone(c)
    /\ LET s == storage[StorageKey]
       IN /\ s.by = 0 <=> ~\E c \in Calls : WroteStorage(c)
          /\ s.by # 0 => WroteStorage(s.by) /\ s.value = args[s.by].receiptData
    /\ \A p \in DOMAIN files :
          LET f == files[p]
          IN /\ f.by = 0 <=> ~\E c \in Calls : WroteFile(c) /\ args[c].outputPath = p
             /\ f.by # 0 =>
                   /\ WroteFile(f.by)
                   /\ args[f.by].outputPath = p
                   /\ f.buffer.rows = calls[f.by].rows
                   /\ f.buffer.height = calls[f.by].finalHeight
                   /\ f.buffer.height = AloneLayout(args[f.by].receiptData,
                                                    calls[f.by].log).currentY + padding
    /\ args[1].outputPath # args[2].outputPath =>
          \A c \in Calls : WroteFile(c) => files[args[c].outputPath].by = c

\* C11 witness: both calls wrote the same output file after their steps
\* interleaved (the second call was invoked while the first awaited), and
\* the file holds the image of the first call, whose write completed last
C11_Witness ==
    /\ isNode
    /\ args[1].outputPath = args[2].outputPath
    /\ args[1].receiptData # args[2].receiptData
    /\ WroteFile(1) /\ WroteFile(2)
    /\ files[args[1].outputPath].by = 1
    /\ calls[1].rows # calls[2].rows

\* C11 witness in the browser: both calls saved under the storage key
C11_WitnessStorage ==
    /\ WroteStorage(1) /\ WroteStorage(2)
    /\ args[1].receiptData # args[2].receiptData
    /\ calls[1].pc = "resolved" /\ calls[2].pc = "resolved"

\* C12: the estimated height of the measurement surface is at least the
\* final surface height (final cursor position + padding), and every painted
\* row lies inside the measurement surface.
C12_EstimateBoundsFinalHeight ==
    /\ Logged("finalize") => img.estimatedHeight >= img.finalHeight
    /\ \A i \in DOMAIN img.rows : img.rows[i].y < img.estimatedHeight

\* C13: with the width of a string taken to be its character count, the
\* name-wrapping loop of the image renderer gives, for every name and
\* budget, exactly the lines wrapText gives.
C13_SameLinesAsWrapText ==
    wrapOut[1] = "lines" /\ nameLinesOut[1] = "lines" => nameLinesOut[2] = wrapOut[2]

====
